---- MODULE Spec2Model ----
(***************************************************************************)
(* A model of src/belote.py: the Belote rules engine (cards, deck, turn    *)
(* ring, bidding, legal moves, trick resolution, scoring) and the          *)
(* coroutine Belote.start that drives one deal from the players' queues.   *)
(***************************************************************************)
EXTENDS Integers, Sequences, FiniteSets, TLC

VARIABLES
    ring,       \* [next, previous]: the players' next / previous references
    team,       \* player number -> index into teams (Player.team)
    teams,      \* Belote.teams: <<Team, Team>>, each [score, has_contract]
    deck,       \* Belote.deck.cards, the top of the deck is the last element
    hand,       \* player number -> Player.hand (a list of cards)
    queue,      \* player number -> Player.queue (decoded, stripped messages)
    pc,         \* where the coroutine Belote.start is suspended, "done" or
                \* "nobid" once it has returned, or the exception that ended it
    awaiting,   \* the player whose recv_message() the coroutine awaits (0: none)
    todo,       \* the players the suspended for-loop has still to yield
    dealer,     \* local dealer of start (0 before start runs)
    card,       \* local card of start: the peeked top card (NoCard before)
    bidder,     \* local bidder of start (0 while unset)
    trump,      \* Belote.trump (NoSuit while the attribute is unset)
    pile,       \* Trick.pile of the current trick: <<player, card>> pairs
    winner,     \* local winner of start (0 before the tricks start)
    tricks,     \* number of completed iterations of the nb_tricks loop
    asked,      \* the bidding prompts sent so far: [to, kind] in send order
    prompt,     \* the last 'What are you playing?' prompt: [to, legal]
    players,    \* Belote.players: the connected players, by Player.number
    index,      \* the argument of Deck.cut (0 when cut is not called)
    ahead       \* messages the clients may still send to a queue at MaxQueue

vars == <<ring, team, teams, deck, hand, queue, pc, awaiting, todo, dealer,
          card, bidder, trump, pile, winner, tricks, asked, prompt, players,
          index, ahead>>

(***************************************************************************)
(* Bounds of the model.                                                    *)
(***************************************************************************)
\* number of outcomes of random.shuffle the model starts from
NbShuffles == 2
\* capacity the model gives each player's (unbounded) queue
MaxQueue == 1
\* messages that may sit in the queues of players who are not awaited
MaxEarly == 1
\* messages sent to a queue that is already at MaxQueue, in the specification
\* where the clients type ahead
MaxAhead == 1
\* how many of the first legal cards an awaited player chooses between
MaxChoice == 2
\* tricks in which the players choose freely; later they play the first legal card
FreeTricks == 1

(***************************************************************************)
(* Ranks, suits, cards and the four tables.                                *)
(***************************************************************************)
\* class Rank, in definition order
RankSeq == <<"ACE", "KING", "QUEEN", "JACK", "TEN", "NINE", "EIGHT", "SEVEN">>
Rank == {RankSeq[i] : i \in DOMAIN RankSeq}

\* the value of each Rank member, as the list of its characters
RankValue ==
    [r \in Rank |->
        CASE r = "ACE"   -> <<"A">>
          [] r = "KING"  -> <<"K">>
          [] r = "QUEEN" -> <<"Q">>
          [] r = "JACK"  -> <<"J">>
          [] r = "TEN"   -> <<"1", "0">>
          [] r = "NINE"  -> <<"9">>
          [] r = "EIGHT" -> <<"8">>
          [] r = "SEVEN" -> <<"7">>]

\* class Suit, in definition order
SuitSeq == <<"DIAMOND", "HEARTS", "SPADES", "CLUBS">>
Suit == {SuitSeq[i] : i \in DOMAIN SuitSeq}

\* the value of each Suit member: one character (d, h, s, c stand for the
\* four suit symbols of the source)
SuitValue ==
    [s \in Suit |->
        CASE s = "DIAMOND" -> "d"
          [] s = "HEARTS"  -> "h"
          [] s = "SPADES"  -> "s"
          [] s = "CLUBS"   -> "c"]

TRUMP_ORDER ==
    [r \in Rank |->
        CASE r = "SEVEN" -> 0
          [] r = "EIGHT" -> 1
          [] r = "QUEEN" -> 2
          [] r = "KING"  -> 3
          [] r = "TEN"   -> 4
          [] r = "ACE"   -> 5
          [] r = "NINE"  -> 6
          [] r = "JACK"  -> 7]

NORMAL_ORDER ==
    [r \in Rank |->
        CASE r = "SEVEN" -> 0
          [] r = "EIGHT" -> 1
          [] r = "NINE"  -> 2
          [] r = "JACK"  -> 3
          [] r = "QUEEN" -> 4
          [] r = "KING"  -> 5
          [] r = "TEN"   -> 6
          [] r = "ACE"   -> 7]

TRUMP_VALUE ==
    [r \in Rank |->
        CASE r = "SEVEN" -> 0
          [] r = "EIGHT" -> 0
          [] r = "QUEEN" -> 3
          [] r = "KING"  -> 4
          [] r = "TEN"   -> 10
          [] r = "ACE"   -> 11
          [] r = "NINE"  -> 14
          [] r = "JACK"  -> 20]

NORMAL_VALUE ==
    [r \in Rank |->
        CASE r = "SEVEN" -> 0
          [] r = "EIGHT" -> 0
          [] r = "NINE"  -> 0
          [] r = "JACK"  -> 2
          [] r = "QUEEN" -> 3
          [] r = "KING"  -> 4
          [] r = "TEN"   -> 10
          [] r = "ACE"   -> 11]

\* dataclass Card
Card == [rank : Rank, suit : Suit]
MkCard(r, s) == [rank |-> r, suit |-> s]

\* the unset values of the model
NoCard == [rank |-> "none", suit |-> "none"]
NoSuit == "none"

\* Card.get_value with the plain table for every suit
get_value_plain(c, tr) == NORMAL_VALUE[c.rank]

\* Card.get_value
get_value(c, tr) ==
    IF c.suit = tr THEN TRUMP_VALUE[c.rank] ELSE NORMAL_VALUE[c.rank]

\* Card.get_rank with the trump table replaced by the plain one
get_rank_plain(c, tr) == NORMAL_ORDER[c.rank]

\* Card.get_rank
get_rank(c, tr) ==
    IF c.suit = tr THEN TRUMP_ORDER[c.rank] ELSE NORMAL_ORDER[c.rank]

(***************************************************************************)
(* Strings are lists of characters.                                        *)
(***************************************************************************)
Whitespace == {" ", "\n", "\r", "\t"}

RECURSIVE LStrip(_)
LStrip(s) ==
    IF s # <<>> /\ Head(s) \in Whitespace THEN LStrip(Tail(s)) ELSE s

RECURSIVE RStrip(_)
RStrip(s) ==
    IF s # <<>> /\ s[Len(s)] \in Whitespace
    THEN RStrip(SubSeq(s, 1, Len(s) - 1))
    ELSE s

\* str.strip() as data_received uses it
Strip(s) == RStrip(LStrip(s))

\* the text of a card as a client types it: rank value, then suit value
CardString(c) == RankValue[c.rank] \o <<SuitValue[c.suit]>>

\* Card.from_string: [ok, card]; ok = FALSE is the ValueError
from_string(s) ==
    IF Len(s) < 2
    THEN [ok |-> FALSE, card |-> NoCard]
    ELSE LET rtext == SubSeq(s, 1, Len(s) - 1)
             stext == s[Len(s)]
             rs == {r \in Rank : RankValue[r] = rtext}
             ss == {x \in Suit : SuitValue[x] = stext}
         IN  IF rs = {} \/ ss = {}
             THEN [ok |-> FALSE, card |-> NoCard]
             ELSE [ok |-> TRUE,
                   card |-> MkCard(CHOOSE r \in rs : TRUE, CHOOSE x \in ss : TRUE)]

(***************************************************************************)
(* Deck.                                                                   *)
(***************************************************************************)
\* Deck.__init__ before the shuffle: itertools.product(Rank, Suit)
NewDeck ==
    [i \in 1..(Len(RankSeq) * Len(SuitSeq)) |->
        MkCard(RankSeq[((i - 1) \div Len(SuitSeq)) + 1],
               SuitSeq[((i - 1) % Len(SuitSeq)) + 1])]

\* random.shuffle: the k-th of the permutations the model draws from
Shuffled(k) ==
    [i \in 1..Len(NewDeck) |->
        NewDeck[(((2 * k + 3) * (i - 1) + 7 * k) % Len(NewDeck)) + 1]]

MinOf(a, b) == IF a < b THEN a ELSE b

\* Deck.pop_many: [ok, cards, deck]; ok = FALSE is the IndexError of
\* list.pop() on an empty list
pop_many(d, n) ==
    LET m == MinOf(n, Len(d))
    IN  [ok    |-> n <= Len(d),
         cards |-> [i \in 1..m |-> d[Len(d) + 1 - i]],
         deck  |-> SubSeq(d, 1, Len(d) - m)]

\* Deck.peek
peek(d) == d[Len(d)]

\* Deck.cut without the asserts on the two chunks
cut_any_chunk(d, idx) ==
    IF ~ (0 <= idx /\ idx < Len(d)) THEN [ok |-> FALSE, deck |-> d]
    ELSE [ok |-> TRUE, deck |-> SubSeq(d, idx + 1, Len(d)) \o SubSeq(d, 1, idx)]

\* Deck.cut: [ok, deck]; ok = FALSE is the AssertionError of one of its three
\* asserts, raised before self.cards is assigned
cut(d, idx) ==
    IF ~ (0 <= idx /\ idx < Len(d)) THEN [ok |-> FALSE, deck |-> d]
    ELSE LET first_chunk == SubSeq(d, 1, idx)
             second_chunk == SubSeq(d, idx + 1, Len(d))
         IN  IF Len(first_chunk) >= 3 /\ Len(second_chunk) >= 3
             THEN [ok |-> TRUE, deck |-> second_chunk \o first_chunk]
             ELSE [ok |-> FALSE, deck |-> d]

(***************************************************************************)
(* Players, the turn ring and the teams.                                   *)
(***************************************************************************)
NbPlayers == 4

\* Belote.players once four connections are seated, by Player.number
Players == 1..NbPlayers

\* references to objects: Python compares a Player and a Team by identity
PlayerRef(n) == <<"Player", n>>
TeamRef(i) == <<"Team", i>>

\* a == b on object references: Player has no __eq__ (identity); the
\* dataclass Team compares its fields with another Team and is unequal to
\* an object of any other class
py_eq(a, b, tms) ==
    IF a[1] # b[1] THEN FALSE
    ELSE IF a[1] = "Player" THEN a[2] = b[2]
    ELSE tms[a[2]] = tms[b[2]]

\* the loop of initialize_double_linked_list over players[k..], with
\* previous_player = prev
RECURSIVE link_from(_, _, _, _)
link_from(plist, k, prev, r) ==
    IF k > Len(plist) THEN r
    ELSE link_from(plist, k + 1, plist[k],
                   [next     |-> [r.next EXCEPT ![prev] = plist[k]],
                    previous |-> [r.previous EXCEPT ![plist[k]] = prev]])

\* the next / previous of the players before they are linked: 0 stands for
\* the None of Player.__init__
Unlinked ==
    [next     |-> [p \in Players |-> 0],
     previous |-> [p \in Players |-> 0]]

\* initialize_double_linked_list that starts from the first player and does
\* not close the ring
initialize_double_linked_list_open(plist) ==
    link_from(plist, 2, plist[1], Unlinked)

\* initialize_double_linked_list
initialize_double_linked_list(plist) ==
    link_from(plist, 1, plist[Len(plist)], Unlinked)

\* the loop of iter_from_next that breaks before it yields self
RECURSIVE iter_loop_without_self(_, _, _)
iter_loop_without_self(r, self, player) ==
    IF r.next[player] = self THEN <<player>>
    ELSE <<player>> \o iter_loop_without_self(r, self, r.next[player])

\* the generator iter_from_next, from its loop variable player on
RECURSIVE iter_loop(_, _, _)
iter_loop(r, self, player) ==
    IF player = self THEN <<player>>
    ELSE <<player>> \o iter_loop(r, self, r.next[player])

\* iter_from_next that yields self first
iter_from_next_self_first(r, self) == iter_loop(r, r.previous[self], self)

\* Player.iter_from_next: the players it yields, in order
iter_from_next(r, self) == iter_loop(r, self, r.next[self])

\* iter_from_self that starts from the next player
iter_from_self_next_first(r, self) == iter_from_next(r, self)

\* Player.iter_from_self
iter_from_self(r, self) == iter_from_next(r, r.previous[self])

\* dataclass Team
NewTeam == [score |-> 0, has_contract |-> FALSE]

\* Belote.set_teams: the two teams and each player's team
set_teams ==
    [teams |-> <<NewTeam, NewTeam>>,
     team  |-> [p \in Players |-> IF p \in {1, 3} THEN 1 ELSE 2]]

(***************************************************************************)
(* Trick: the pile is a list of <<player, card>>.                          *)
(***************************************************************************)
\* Trick.dominant_suit (NoSuit is the None of an empty pile)
dominant_suit(pl) == IF pl = <<>> THEN NoSuit ELSE pl[1][2].suit

\* Trick.pile_key_function with the led suit ranked above trump
pile_key_led_first(pc_, pl, tr) ==
    LET c == pc_[2]
    IN  IF c.suit = dominant_suit(pl) THEN <<2, get_rank(c, tr)>>
        ELSE IF c.suit = tr THEN <<1, get_rank(c, tr)>>
        ELSE <<0, get_rank(c, tr)>>

\* Trick.pile_key_function
pile_key_function(pc_, pl, tr) ==
    LET c == pc_[2]
    IN  IF c.suit = tr THEN <<2, get_rank(c, tr)>>
        ELSE IF c.suit = dominant_suit(pl) THEN <<1, get_rank(c, tr)>>
        ELSE <<0, get_rank(c, tr)>>

\* tuple comparison a < b of two keys
key_lt(a, b) == a[1] < b[1] \/ (a[1] = b[1] /\ a[2] < b[2])

\* Trick.winning_player_card: max() returns the first maximal element
winning_player_card(pl, tr) ==
    LET key(i) == pile_key_function(pl[i], pl, tr)
        best == CHOOSE i \in DOMAIN pl :
                    /\ \A j \in DOMAIN pl : ~ key_lt(key(i), key(j))
                    /\ \A j \in 1..(i - 1) : key_lt(key(j), key(i))
    IN  pl[best]

RECURSIVE sum_values(_, _)
sum_values(pl, tr) ==
    IF pl = <<>> THEN 0
    ELSE get_value(Head(pl)[2], tr) + sum_values(Tail(pl), tr)

\* Trick.total_score
total_score(pl, tr) == sum_values(pl, tr)

(***************************************************************************)
(* Player.legal_moves.                                                     *)
(***************************************************************************)
\* [card for card in cards if card.suit == suit]
of_suit(cards, suit) ==
    LET Test(c) == c.suit = suit IN SelectSeq(cards, Test)

\* [card for card in cards if card.get_rank(trump) > winning_card.get_rank(trump)]
higher_than(cards, winning_card, tr) ==
    LET Test(c) == get_rank(c, tr) > get_rank(winning_card, tr)
    IN  SelectSeq(cards, Test)

\* x or y on two lists
list_or(x, y) == IF x # <<>> THEN x ELSE y

\* legal_moves without the fallback of 'higher_trumps or same_suit'
legal_moves_no_fallback(self, h, pl, tr, tm, tms) ==
    IF dominant_suit(pl) = NoSuit THEN h
    ELSE
    LET wpc == winning_player_card(pl, tr)
        same_suit == of_suit(h, dominant_suit(pl))
        trumps == of_suit(h, tr)
    IN  IF dominant_suit(pl) = tr
        THEN IF same_suit = <<>> THEN h
             ELSE higher_than(same_suit, wpc[2], tr)
        ELSE IF same_suit # <<>> THEN same_suit
        ELSE IF trumps # <<>> THEN trumps
        ELSE h

\* legal_moves with no obligation to trump in on a plain lead
legal_moves_no_trump_in(self, h, pl, tr, tm, tms) ==
    IF dominant_suit(pl) = NoSuit THEN h
    ELSE
    LET wpc == winning_player_card(pl, tr)
        same_suit == of_suit(h, dominant_suit(pl))
    IN  IF dominant_suit(pl) = tr
        THEN IF same_suit = <<>> THEN h
             ELSE list_or(higher_than(same_suit, wpc[2], tr), same_suit)
        ELSE IF same_suit # <<>> THEN same_suit
        ELSE h

\* Player.legal_moves of player self holding h, on pile pl with trump tr;
\* tm is the players' team map and tms the teams
legal_moves(self, h, pl, tr, tm, tms) ==
    IF dominant_suit(pl) = NoSuit THEN h
    ELSE
    LET wpc == winning_player_card(pl, tr)
        winning_player == PlayerRef(wpc[1])
        winning_card == wpc[2]
        self_team == TeamRef(tm[self])
        same_suit == of_suit(h, dominant_suit(pl))
        trumps == of_suit(h, tr)
    IN  IF dominant_suit(pl) = tr
        THEN IF same_suit = <<>> THEN h
             ELSE IF py_eq(winning_player, self_team, tms) THEN same_suit
             ELSE list_or(higher_than(same_suit, winning_card, tr), same_suit)
        ELSE IF same_suit # <<>> THEN same_suit
        ELSE IF trumps # <<>>
             THEN IF py_eq(winning_player, self_team, tms) THEN trumps
                  ELSE list_or(higher_than(same_suit, winning_card, tr), trumps)
        ELSE h

\* the set of the elements of a list
Range(s) == {s[i] : i \in DOMAIN s}

\* list.remove(x): the list without the first element equal to x
RECURSIVE list_remove(_, _)
list_remove(s, x) ==
    IF s = <<>> THEN <<>>
    ELSE IF Head(s) = x THEN Tail(s)
    ELSE <<Head(s)>> \o list_remove(Tail(s), x)

(***************************************************************************)
(* Dealing.                                                                *)
(***************************************************************************)
\* one 'for player in self.iter_from_next(): player.add_to_hand(
\* deck.pop_many(nb[player]))' loop from its k-th player on; st is
\* [ok, hand, deck] and ok = FALSE once pop_many has raised
\* (the state st is bound to a value s once, before the loop body reads it)
RECURSIVE deal_loop(_, _, _, _)
deal_loop(st, order, k, nb) ==
    LET body(s) ==
            IF k > Len(order) \/ ~ s.ok THEN s
            ELSE LET p == order[k]
                     r == pop_many(s.deck, nb[p])
                 IN  deal_loop([ok   |-> r.ok,
                                hand |-> IF r.ok
                                         THEN [s.hand EXCEPT ![p] = @ \o r.cards]
                                         ELSE s.hand,
                                deck |-> r.deck],
                               order, k + 1, nb)
    IN  CHOOSE out \in {body(s) : s \in {st}} : TRUE

\* Player.deal_5_cards of player self
deal_5_cards(r, self, h, d) ==
    LET order == iter_from_next(r, self)
        first == deal_loop([ok |-> TRUE, hand |-> h, deck |-> d], order, 1,
                           [p \in Players |-> 2])
    IN  deal_loop(first, order, 1, [p \in Players |-> 3])

\* deal_remaining that gives the bidder three cards like the others
deal_remaining_all_three(r, self, h, d, b) ==
    LET order == iter_from_next(r, self)
        top == pop_many(d, 1)
        first == [ok   |-> top.ok,
                  hand |-> IF top.ok THEN [h EXCEPT ![b] = @ \o top.cards] ELSE h,
                  deck |-> top.deck]
    IN  deal_loop(first, order, 1, [p \in Players |-> 3])

\* Player.deal_remaining of player self
deal_remaining(r, self, h, d, b) ==
    LET order == iter_from_next(r, self)
        top == pop_many(d, 1)
        first == [ok   |-> top.ok,
                  hand |-> IF top.ok THEN [h EXCEPT ![b] = @ \o top.cards] ELSE h,
                  deck |-> top.deck]
    IN  deal_loop(first, order, 1, [p \in Players |-> IF p = b THEN 2 ELSE 3])

(***************************************************************************)
(* What the clients send.                                                  *)
(***************************************************************************)
Yes == <<"y", "e", "s">>
No == <<"n", "o">>
Malformed == <<"X", "9">>

\* the tokens a client sends while the bidding lasts
BidTokens == {Yes, No} \cup {<<SuitValue[s]>> : s \in Suit}

\* how many of its first legal cards the awaited player chooses between
ChoiceCount == IF tricks < FreeTricks THEN MaxChoice ELSE 1

\* the tokens player p sends during the tricks: the awaited player one of its
\* first legal cards and, in the free tricks, the first card of its hand that
\* is not legal or a malformed card; another player the first card of its hand
PlayTokens(p) ==
    IF p = awaiting
    THEN LET legal == prompt.legal
             bad == SelectSeq(hand[p], LAMBDA c : c \notin Range(legal))
         IN  {CardString(legal[i]) : i \in 1..MinOf(ChoiceCount, Len(legal))}
             \cup IF tricks < FreeTricks
                  THEN {CardString(bad[i]) : i \in 1..MinOf(1, Len(bad))}
                       \cup {Malformed}
                  ELSE {}
    ELSE {CardString(hand[p][i]) : i \in 1..MinOf(1, Len(hand[p]))}

\* the bytes a client's line carries: the token and the newline
ClientData(p) ==
    {tok \o <<"\n">> :
        tok \in IF p \notin Range(players) THEN {}
                ELSE IF pc \in {"idle", "start", "take", "choose"} THEN BidTokens
                ELSE IF pc = "play" THEN PlayTokens(p)
                ELSE {}}

\* messages waiting in the queues of the players that are not awaited
EarlyCount ==
    LET RECURSIVE total(_)
        total(S) == IF S = {} THEN 0
                    ELSE LET q == CHOOSE x \in S : TRUE
                         IN  Len(queue[q]) + total(S \ {q})
    IN  total(Players \ {awaiting})

(***************************************************************************)
(* The initial state: Belote() is constructed, four players are seated and *)
(* start_game_if_ready has linked the ring, set the teams and scheduled    *)
(* start().                                                                *)
(***************************************************************************)
\* the state once four players are seated, but for the clients' typing ahead
InitSeated ==
    /\ players = [i \in 1..NbPlayers |-> i]
    /\ index = 0
    /\ ring = initialize_double_linked_list(players)
    /\ team = set_teams.team
    /\ teams = set_teams.teams
    /\ \E k \in 1..NbShuffles : deck = Shuffled(k)
    /\ hand = [p \in Players |-> <<>>]
    /\ queue = [p \in Players |-> <<>>]
    /\ pc = "start"
    /\ awaiting = 0
    /\ todo = <<>>
    /\ dealer = 0
    /\ card = NoCard
    /\ bidder = 0
    /\ trump = NoSuit
    /\ pile = <<>>
    /\ winner = 0
    /\ tricks = 0
    /\ asked = <<>>
    /\ prompt = [to |-> 0, legal |-> <<>>]

Init ==
    /\ InitSeated
    /\ ahead = 0

(***************************************************************************)
(* BeloteProtocol.data_received.                                           *)
(***************************************************************************)
DataReceived(p, data) ==
    /\ Len(queue[p]) < MaxQueue + ahead
    /\ p # awaiting => EarlyCount < MaxEarly
    /\ queue' = [queue EXCEPT ![p] = Append(@, Strip(data))]
    /\ ahead' = IF Len(queue[p]) < MaxQueue THEN ahead ELSE ahead - 1
    /\ UNCHANGED <<players, index, ring, team, teams, deck, hand, pc, awaiting, todo, dealer,
                   card, bidder, trump, pile, winner, tricks, asked, prompt>>

(***************************************************************************)
(* Belote.start, from one suspension to the next.                          *)
(***************************************************************************)
\* the prompt of the bidding sent to player p
BidPrompt(p, kind, choices) == [to |-> p, kind |-> kind, choices |-> choices]

\* start up to its first await: the dealer is drawn, five cards are dealt to
\* each player, the top card is shown and the first player is asked; a dealer
\* that connected after the ring was linked has next = None, and dealing from
\* it ends start with the AttributeError of None.add_to_hand
Start ==
    /\ pc = "start"
    /\ \E d \in Range(players) :
        IF d \notin Players
        THEN /\ dealer' = d
             /\ pc' = "AttributeError"
             /\ UNCHANGED <<hand, deck, card, awaiting, todo, asked>>
        ELSE
        LET dealt == deal_5_cards(ring, d, hand, deck)
            order == iter_from_next(ring, d)
        IN  /\ dealer' = d
            /\ hand' = dealt.hand
            /\ deck' = dealt.deck
            /\ IF dealt.ok
               THEN /\ card' = peek(dealt.deck)
                    /\ pc' = "take"
                    /\ awaiting' = Head(order)
                    /\ todo' = Tail(order)
                    /\ asked' = Append(asked, BidPrompt(Head(order), "take", <<>>))
               ELSE /\ pc' = "IndexError"
                    /\ UNCHANGED <<card, awaiting, todo, asked>>
    /\ UNCHANGED <<ahead, players, index, ring, team, teams, queue, bidder, trump, pile, winner,
                   tricks, prompt>>

\* Player.ask_to_play up to its await: the legal moves are sent to player p
AskToPlay(p, h, pl, tr, tms) ==
    prompt' = [to |-> p, legal |-> legal_moves(p, h[p], pl, tr, team, tms)]

\* the contract flag set on every team
contract_all(tms, b) ==
    [i \in DOMAIN tms |-> [tms[i] EXCEPT !.has_contract = TRUE]]

\* bidder.team.has_contract = True
contract(tms, b) == [tms EXCEPT ![team[b]].has_contract = TRUE]

\* lines 341-351 of start once bidder b and trump tr are known: the contract
\* flag, the remaining cards, and the first player of the first trick is asked
Resolved(b, tr) ==
    LET newteams == contract(teams, b)
        dealt == deal_remaining(ring, dealer, hand, deck, b)
        order == iter_from_self(ring, ring.next[dealer])
    IN  /\ bidder' = b
        /\ trump' = tr
        /\ teams' = newteams
        /\ hand' = dealt.hand
        /\ deck' = dealt.deck
        /\ IF dealt.ok
           THEN /\ pc' = "play"
                /\ winner' = ring.next[dealer]
                /\ awaiting' = Head(order)
                /\ todo' = Tail(order)
                /\ AskToPlay(Head(order), dealt.hand, <<>>, tr, newteams)
           ELSE /\ pc' = "IndexError"
                /\ awaiting' = 0
                /\ UNCHANGED <<winner, todo, prompt>>
        /\ UNCHANGED <<ahead, players, index, ring, team, dealer, card, pile, tricks, asked>>

\* the choices without the filter on the declined suit
ChoicesAll == [i \in DOMAIN SuitSeq |-> <<SuitValue[SuitSeq[i]]>>]

\* the choices of the second round
Choices == LET keep == SelectSeq(SuitSeq, LAMBDA s : s # card.suit)
           IN  [i \in DOMAIN keep |-> <<SuitValue[keep[i]]>>]

\* Suit(value): the member with that value
SuitOf(text) == CHOOSE s \in Suit : <<SuitValue[s]>> = text

\* the awaited player's newest message is taken from its queue
Receive_newest ==
    /\ awaiting \in Players
    /\ queue[awaiting] # <<>>
    /\ queue' = [queue EXCEPT ![awaiting] = SubSeq(@, 1, Len(@) - 1)]

\* the awaited player's message is taken from its queue
Receive ==
    /\ awaiting \in Players
    /\ queue[awaiting] # <<>>
    /\ queue' = [queue EXCEPT ![awaiting] = Tail(@)]

\* first round, the answer is 'yes'
TakeYes ==
    /\ pc = "take"
    /\ Receive
    /\ Head(queue[awaiting]) = Yes
    /\ Resolved(awaiting, card.suit)

\* first round, any other answer: the next player is asked and the dealer's
\* queue is awaited
TakeDeclined_awaits_dealer ==
    /\ pc = "take"
    /\ Receive
    /\ Head(queue[awaiting]) # Yes
    /\ todo # <<>>
    /\ awaiting' = dealer
    /\ todo' = Tail(todo)
    /\ asked' = Append(asked, BidPrompt(Head(todo), "take", <<>>))
    /\ UNCHANGED <<ahead, players, index, ring, team, teams, deck, hand, pc,
                   dealer, card, bidder, trump, pile, winner, tricks, prompt>>

\* first round, any other answer, and the loop goes on
TakeDeclined ==
    /\ pc = "take"
    /\ Receive
    /\ Head(queue[awaiting]) # Yes
    /\ todo # <<>>
    /\ awaiting' = Head(todo)
    /\ todo' = Tail(todo)
    /\ asked' = Append(asked, BidPrompt(Head(todo), "take", <<>>))
    /\ UNCHANGED <<ahead, players, index, ring, team, teams, deck, hand, pc, dealer, card, bidder,
                   trump, pile, winner, tricks, prompt>>

\* first round, the last player declines: the second round begins
TakeAllDeclined ==
    /\ pc = "take"
    /\ Receive
    /\ Head(queue[awaiting]) # Yes
    /\ todo = <<>>
    /\ LET order == iter_from_next(ring, dealer)
       IN  /\ pc' = "choose"
           /\ awaiting' = Head(order)
           /\ todo' = Tail(order)
           /\ asked' = Append(asked, BidPrompt(Head(order), "choose", Choices))
    /\ UNCHANGED <<ahead, players, index, ring, team, teams, deck, hand, dealer, card, bidder,
                   trump, pile, winner, tricks, prompt>>

\* second round, the answer is one of the choices
ChooseSuit ==
    /\ pc = "choose"
    /\ Receive
    /\ Head(queue[awaiting]) \in Range(Choices)
    /\ Resolved(awaiting, SuitOf(Head(queue[awaiting])))

\* second round, any other answer, and the same player is awaited again
ChooseDeclined_same_player ==
    /\ pc = "choose"
    /\ Receive
    /\ Head(queue[awaiting]) \notin Range(Choices)
    /\ todo # <<>>
    /\ UNCHANGED <<ahead, players, index, ring, team, teams, deck, hand, pc, awaiting,
                   todo, dealer, card, bidder, trump, pile, winner, tricks,
                   asked, prompt>>

\* second round, any other answer, and the loop goes on
ChooseDeclined ==
    /\ pc = "choose"
    /\ Receive
    /\ Head(queue[awaiting]) \notin Range(Choices)
    /\ todo # <<>>
    /\ awaiting' = Head(todo)
    /\ todo' = Tail(todo)
    /\ asked' = Append(asked, BidPrompt(Head(todo), "choose", Choices))
    /\ UNCHANGED <<ahead, players, index, ring, team, teams, deck, hand, pc, dealer, card, bidder,
                   trump, pile, winner, tricks, prompt>>

\* second round, the last player declines: start returns
ChooseAllDeclined ==
    /\ pc = "choose"
    /\ Receive
    /\ Head(queue[awaiting]) \notin Range(Choices)
    /\ todo = <<>>
    /\ pc' = "nobid"
    /\ awaiting' = 0
    /\ UNCHANGED <<ahead, players, index, ring, team, teams, deck, hand, todo, dealer, card, bidder,
                   trump, pile, winner, tricks, asked, prompt>>

(***************************************************************************)
(* The tricks.                                                             *)
(***************************************************************************)
nb_tricks == 8
LastTrickBonus == 10

\* ask_to_play resumes: the message is no card (ValueError of from_string)
PlayValueError ==
    /\ pc = "play"
    /\ Receive
    /\ ~ from_string(Head(queue[awaiting])).ok
    /\ pc' = "ValueError"
    /\ awaiting' = 0
    /\ UNCHANGED <<ahead, players, index, ring, team, teams, deck, hand, todo, dealer, card, bidder,
                   trump, pile, winner, tricks, asked, prompt>>

\* ask_to_play resumes: the card is not a legal move (the assert fails)
PlayAssertionError ==
    /\ pc = "play"
    /\ Receive
    /\ from_string(Head(queue[awaiting])).ok
    /\ from_string(Head(queue[awaiting])).card \notin Range(prompt.legal)
    /\ pc' = "AssertionError"
    /\ awaiting' = 0
    /\ UNCHANGED <<ahead, players, index, ring, team, teams, deck, hand, todo, dealer, card, bidder,
                   trump, pile, winner, tricks, asked, prompt>>

\* the card the awaited player plays, when its message is a legal card
PlayedCard == from_string(Head(queue[awaiting])).card

PlayIsLegal ==
    /\ pc = "play"
    /\ Receive
    /\ from_string(Head(queue[awaiting])).ok
    /\ PlayedCard \in Range(prompt.legal)

\* Player.plays that leaves the card in the hand
plays_keeps_card(p, c, pl, h) ==
    [pile |-> Append(pl, <<p, c>>),
     hand |-> h]

\* Player.plays: the pile and the hand after player p plays c
plays(p, c, pl, h) ==
    [pile |-> Append(pl, <<p, c>>),
     hand |-> [h EXCEPT ![p] = list_remove(@, c)]]

\* the card is played and the next player of the trick is asked (after, and
\* below w and order, are bound to their values once)
PlayNext ==
    /\ PlayIsLegal
    /\ todo # <<>>
    /\ \E after \in {plays(awaiting, PlayedCard, pile, hand)} :
           /\ pile' = after.pile
           /\ hand' = after.hand
           /\ awaiting' = Head(todo)
           /\ todo' = Tail(todo)
           /\ AskToPlay(Head(todo), after.hand, after.pile, trump, teams)
    /\ UNCHANGED <<ahead, players, index, ring, team, teams, deck, pc, dealer, card, bidder, trump,
                   winner, tricks, asked>>

\* the teams after the trick pl is scored for player w, the bonus left out
scored_without_bonus(tms, w, pl, tr, bonus) ==
    [tms EXCEPT ![team[w]].score = @ + total_score(pl, tr)]

\* the teams after the trick pl is scored for player w, with a bonus
scored(tms, w, pl, tr, bonus) ==
    [tms EXCEPT ![team[w]].score = @ + total_score(pl, tr) + bonus]

\* the fourth card is played: the trick is scored and the winner leads the
\* next trick
PlayTrickEnds ==
    /\ PlayIsLegal
    /\ todo = <<>>
    /\ tricks + 1 < nb_tricks
    /\ \E after \in {plays(awaiting, PlayedCard, pile, hand)} :
       \E w \in {winning_player_card(after.pile, trump)[1]} :
       \E order \in {iter_from_self(ring, w)} :
           /\ hand' = after.hand
           /\ winner' = w
           /\ teams' = scored(teams, w, after.pile, trump, 0)
           /\ tricks' = tricks + 1
           /\ pile' = <<>>
           /\ awaiting' = Head(order)
           /\ todo' = Tail(order)
           /\ AskToPlay(Head(order), after.hand, <<>>, trump, teams')
    /\ UNCHANGED <<ahead, players, index, ring, team, deck, pc, dealer, card, bidder, trump, asked>>

\* the last card of the last trick is played: the trick is scored, its
\* winner's team gets the last-trick points and start returns
PlayDealEnds ==
    /\ PlayIsLegal
    /\ todo = <<>>
    /\ tricks + 1 = nb_tricks
    /\ \E after \in {plays(awaiting, PlayedCard, pile, hand)} :
       \E w \in {winning_player_card(after.pile, trump)[1]} :
           /\ hand' = after.hand
           /\ pile' = after.pile
           /\ winner' = w
           /\ teams' = scored(teams, w, after.pile, trump, LastTrickBonus)
           /\ tricks' = tricks + 1
    /\ pc' = "done"
    /\ awaiting' = 0
    /\ UNCHANGED <<ahead, players, index, ring, team, deck, todo, dealer, card, bidder, trump,
                   asked, prompt>>

Next ==
    \/ \E p \in Players : \E data \in ClientData(p) : DataReceived(p, data)
    \/ Start
    \/ TakeYes
    \/ TakeDeclined
    \/ TakeAllDeclined
    \/ ChooseSuit
    \/ ChooseDeclined
    \/ ChooseAllDeclined
    \/ PlayValueError
    \/ PlayAssertionError
    \/ PlayNext
    \/ PlayTrickEnds
    \/ PlayDealEnds

Spec == Init /\ [][Next]_vars

(***************************************************************************)
(* The bidding under the event loop's scheduling: start runs from its      *)
(* first line to the end of the bidding, and a step of start that is ready *)
(* to run (its awaited queue holds a message) is eventually run.           *)
(***************************************************************************)
BiddingStep ==
    \/ Start
    \/ TakeYes
    \/ TakeDeclined
    \/ TakeAllDeclined
    \/ ChooseSuit
    \/ ChooseDeclined
    \/ ChooseAllDeclined

NextBidding ==
    \/ \E p \in Players : \E data \in ClientData(p) : DataReceived(p, data)
    \/ BiddingStep

FairBidding == Init /\ [][NextBidding]_vars /\ WF_vars(BiddingStep)

(***************************************************************************)
(* The deal with clients that type ahead: a client may send a message      *)
(* while an earlier one is still in its queue.                             *)
(***************************************************************************)
InitAhead ==
    /\ InitSeated
    /\ ahead = MaxAhead

\* start from its first line to the end of the bidding
SpecAhead == InitAhead /\ [][NextBidding]_vars

(***************************************************************************)
(* The deal with clients that answer the prompts: only the awaited player  *)
(* sends, once for each prompt, a bid token in the bidding and one of its  *)
(* first legal cards in the tricks, so that the two exceptions of          *)
(* ask_to_play are never raised.                                           *)
(* A prompted client eventually answers, and a step of start that is ready *)
(* to run is eventually run.                                               *)
(***************************************************************************)
AnswerData(p) ==
    {tok \o <<"\n">> :
        tok \in IF pc \in {"take", "choose"} THEN BidTokens
                ELSE IF pc = "play"
                THEN {CardString(prompt.legal[i]) :
                         i \in 1..MinOf(ChoiceCount, Len(prompt.legal))}
                ELSE {}}

\* the awaited client's answer arrives, if it has not answered yet
Answer ==
    /\ awaiting \in Players
    /\ queue[awaiting] = <<>>
    /\ \E data \in AnswerData(awaiting) : DataReceived(awaiting, data)

\* the steps of start on answers that are accepted
AnsweredStep ==
    \/ BiddingStep
    \/ PlayNext
    \/ PlayTrickEnds
    \/ PlayDealEnds

NextAnswered ==
    \/ Answer
    \/ AnsweredStep

FairDeal ==
    Init /\ [][NextAnswered]_vars /\ WF_vars(AnsweredStep) /\ WF_vars(Answer)

(***************************************************************************)
(* The connections: Belote() is constructed and the server accepts         *)
(* clients; the deal then runs to the end of the bidding.                  *)
(***************************************************************************)
\* connections the model accepts
MaxConn == 5

InitConn ==
    /\ ahead = 0
    /\ players = <<>>
    /\ index = 0
    /\ ring = Unlinked
    /\ team = [p \in Players |-> 0]
    /\ teams = <<>>
    /\ \E k \in 1..NbShuffles : deck = Shuffled(k)
    /\ hand = [p \in Players |-> <<>>]
    /\ queue = [p \in Players |-> <<>>]
    /\ pc = "idle"
    /\ awaiting = 0
    /\ todo = <<>>
    /\ dealer = 0
    /\ card = NoCard
    /\ bidder = 0
    /\ trump = NoSuit
    /\ pile = <<>>
    /\ winner = 0
    /\ tricks = 0
    /\ asked = <<>>
    /\ prompt = [to |-> 0, legal |-> <<>>]

\* Belote.add_player: the new player with its number
add_player(plist) == Append(plist, Len(plist) + 1)

\* BeloteProtocol.connection_made: add_player, then start_game_if_ready
ConnectionMade ==
    /\ Len(players) < MaxConn
    /\ players' = add_player(players)
    /\ IF Len(players') = NbPlayers
       THEN /\ ring' = initialize_double_linked_list(players')
            /\ team' = set_teams.team
            /\ teams' = set_teams.teams
            /\ pc' = "start"
       ELSE UNCHANGED <<ring, team, teams, pc>>
    /\ UNCHANGED <<ahead, index, deck, hand, queue, awaiting, todo, dealer, card,
                   bidder, trump, pile, winner, tricks, asked, prompt>>

NextConn ==
    \/ ConnectionMade
    \/ NextBidding

SpecConn == InitConn /\ [][NextConn]_vars

(***************************************************************************)
(* legal_moves and winning_player_card as pure functions: the inputs are   *)
(* drawn from bounded sets of cards and one action applies the function.   *)
(***************************************************************************)
\* number of cards the hands and the tricks so far are drawn from
NbCardsLM == 9
\* largest hand drawn
MaxHandLM == 3
\* ranks of the cards the complete tricks are drawn from
NbRanksWin == 3

\* the ranks by falling trump order: JACK, NINE, ACE, ...
TopRanks(n) == {r \in Rank : TRUMP_ORDER[r] >= Len(RankSeq) - n}
CardsOf(nr) == {c \in Card : c.rank \in TopRanks(nr)}

\* the cards listed suit by suit, three ranks at a time: JACK, NINE, ACE of
\* diamonds, of hearts, of spades, of clubs, then TEN, KING, QUEEN of each
CardListing ==
    [i \in 1..24 |->
        LET tr == Len(RankSeq) - (3 * ((i - 1) \div 12) + ((i - 1) % 3)) - 1
        IN  MkCard(CHOOSE r \in Rank : TRUMP_ORDER[r] = tr,
                   SuitSeq[(((i - 1) % 12) \div 3) + 1])]
FirstCards(n) == {CardListing[i] : i \in 1..MinOf(n, Len(CardListing))}

\* a set of cards as a list, in the order of NewDeck
AsList(S) == SelectSeq(NewDeck, LAMBDA c : c \in S)

\* the piles of n distinct cards of U led by player leader, in ring order
Piles(U, n, r, leader) ==
    LET order == iter_from_self(r, leader)
    IN  {[i \in 1..n |-> <<order[i], cs[i]>>] :
            cs \in {x \in [1..n -> U] : \A i, j \in 1..n : i # j => x[i] # x[j]}}

\* the pure-function specifications share the fields no input touches
InitPure ==
    /\ ahead = 0
    /\ players = [i \in 1..NbPlayers |-> i]
    /\ ring = initialize_double_linked_list(players)
    /\ team = set_teams.team
    /\ teams = set_teams.teams
    /\ queue = [p \in Players |-> <<>>]
    /\ todo = <<>>
    /\ dealer = 0
    /\ card = NoCard
    /\ bidder = 0
    /\ winner = 0
    /\ tricks = 0
    /\ asked = <<>>
    /\ prompt = [to |-> 0, legal |-> <<>>]

\* every trump, every trick so far of 0..3 cards, every next player and
\* every non-empty hand of at most MaxHandLM other cards
InitLM ==
    /\ InitPure
    /\ index = 0
    /\ deck = <<>>
    /\ pc = "legal_moves"
    /\ trump \in Suit
    /\ \E leader \in Players : \E n \in 0..(NbPlayers - 1) :
        /\ pile \in Piles(FirstCards(NbCardsLM), n, ring, leader)
        /\ awaiting = iter_from_self(ring, leader)[n + 1]
    /\ \E H \in SUBSET (FirstCards(NbCardsLM) \ {pile[i][2] : i \in DOMAIN pile}) :
        /\ H # {}
        /\ Cardinality(H) <= MaxHandLM
        /\ hand = [p \in Players |-> IF p = awaiting THEN AsList(H) ELSE <<>>]

\* ask_to_play computes the legal moves of the awaited player
ApplyLegalMoves ==
    /\ pc = "legal_moves"
    /\ AskToPlay(awaiting, hand, pile, trump, teams)
    /\ pc' = "asked"
    /\ UNCHANGED <<ahead, players, index, ring, team, teams, deck, hand, queue, awaiting, todo,
                   dealer, card, bidder, trump, pile, winner, tricks, asked>>

NextLM == ApplyLegalMoves

SpecLM == InitLM /\ [][NextLM]_vars

\* every trump and every complete trick of four distinct cards
InitWin ==
    /\ InitPure
    /\ index = 0
    /\ deck = <<>>
    /\ pc = "trick"
    /\ trump \in Suit
    /\ awaiting = 0
    /\ hand = [p \in Players |-> <<>>]
    /\ \E leader \in Players :
        pile \in Piles(CardsOf(NbRanksWin), NbPlayers, ring, leader)

\* lines 353-354 of start: the winner of the trick and its team's score
ResolveTrick ==
    /\ pc = "trick"
    /\ winner' = winning_player_card(pile, trump)[1]
    /\ teams' = scored(teams, winner', pile, trump, 0)
    /\ pc' = "resolved"
    /\ UNCHANGED <<ahead, players, index, ring, team, deck, hand, queue, awaiting, todo, dealer,
                   card, bidder, trump, pile, tricks, asked, prompt>>

NextWin == ResolveTrick

SpecWin == InitWin /\ [][NextWin]_vars

(***************************************************************************)
(* Deck.cut as a pure function.                                            *)
(***************************************************************************)
\* how far below 0 and beyond the deck's length the indexes are drawn
CutMargin == 2

\* the decks of every length that pop_many leaves of a shuffled deck, and
\* every index from CutMargin below 0 to CutMargin beyond the length
InitCut ==
    /\ InitPure
    /\ pc = "cut"
    /\ \E k \in 1..NbShuffles : \E n \in 0..Len(NewDeck) :
          deck = pop_many(Shuffled(k), n).deck
    /\ index \in (0 - CutMargin)..(Len(deck) + CutMargin)
    /\ hand = [p \in Players |-> <<>>]
    /\ awaiting = 0
    /\ trump = NoSuit
    /\ pile = <<>>

\* deck.cut(index)
Cut ==
    /\ pc = "cut"
    /\ deck' = cut(deck, index).deck
    /\ pc' = IF cut(deck, index).ok THEN "cut_done" ELSE "AssertionError"
    /\ UNCHANGED <<ahead, players, index, ring, team, teams, hand, queue, awaiting,
                   todo, dealer, card, bidder, trump, pile, winner, tricks,
                   asked, prompt>>

NextCut == Cut

SpecCut == InitCut /\ [][NextCut]_vars

(***************************************************************************)
(* Properties of legal_moves, checked under SpecLM.                        *)
(***************************************************************************)
\* the cards of the prompt and of the prompted player's hand, as sets
LegalSet == Range(prompt.legal)
HandSet == Range(hand[awaiting])
LedSuit == pile[1][2].suit
TrumpsInHand == {c \in HandSet : c.suit = trump}

\* the pile's best card when trump is led: its highest trump, by TRUMP_ORDER
BestTrumpIndex ==
    CHOOSE i \in DOMAIN pile :
        /\ pile[i][2].suit = trump
        /\ \A j \in DOMAIN pile :
              pile[j][2].suit = trump
                  => TRUMP_ORDER[pile[j][2].rank] <= TRUMP_ORDER[pile[i][2].rank]
BestTrump == pile[BestTrumpIndex][2]
BestHeldByPartner == team[pile[BestTrumpIndex][1]] = team[awaiting]
HigherTrumps ==
    {c \in TrumpsInHand : TRUMP_ORDER[c.rank] > TRUMP_ORDER[BestTrump.rank]}

\* C1: legal_moves returns a non-empty subset of the hand, and when the trick
\* is not empty and the hand holds a card of the led suit, every card it
\* returns is of the led suit.
C1_LegalMovesFollowSuit ==
    pc = "asked" =>
        /\ LegalSet # {}
        /\ LegalSet \subseteq HandSet
        /\ (pile # <<>> /\ \E c \in HandSet : c.suit = LedSuit)
              => \A c \in LegalSet : c.suit = LedSuit

C1_Witness ==
    /\ pc = "asked"
    /\ pile # <<>>
    /\ \E c \in HandSet : c.suit = LedSuit
    /\ \E c \in HandSet : c.suit # LedSuit
    /\ LegalSet # HandSet
    /\ LegalSet # {}

\* C2: when trump is led and an opponent holds the best card, the legal moves
\* of a player holding trumps are its trumps higher than the winning trump, or
\* all its trumps when it has none higher; a player without trump may play
\* any card of its hand.
C2_MustOvertrumpOpponent ==
    (pc = "asked" /\ pile # <<>> /\ LedSuit = trump /\ ~ BestHeldByPartner) =>
        LegalSet = IF TrumpsInHand = {} THEN HandSet
                   ELSE IF HigherTrumps # {} THEN HigherTrumps
                   ELSE TrumpsInHand

C2_Witness ==
    /\ pc = "asked"
    /\ pile # <<>>
    /\ LedSuit = trump
    /\ ~ BestHeldByPartner
    /\ HigherTrumps # {}
    /\ HigherTrumps # TrumpsInHand
    /\ TrumpsInHand # HandSet
    /\ LegalSet = HigherTrumps

\* C3: when trump is led, the player holds a trump and its partner holds the
\* best card of the trick, the legal moves are all the trumps of the hand.
C3_PartnerWinningAllTrumps ==
    (pc = "asked" /\ pile # <<>> /\ LedSuit = trump /\ TrumpsInHand # {}
        /\ BestHeldByPartner)
        => LegalSet = TrumpsInHand

\* C4: when a plain suit is led and the player holds no card of it, the legal
\* moves are all the trumps of the hand if it holds any, whoever is winning
\* and whatever trump was played, and the whole hand otherwise.
C4_MustTrumpIn ==
    (pc = "asked" /\ pile # <<>> /\ LedSuit # trump
        /\ \A c \in HandSet : c.suit # LedSuit)
        => LegalSet = IF TrumpsInHand # {} THEN TrumpsInHand ELSE HandSet

\* an opponent has trumped in higher than one of the player's trumps
C4_Witness ==
    /\ pc = "asked"
    /\ pile # <<>>
    /\ LedSuit # trump
    /\ \A c \in HandSet : c.suit # LedSuit
    /\ TrumpsInHand # {}
    /\ TrumpsInHand # HandSet
    /\ \E i \in DOMAIN pile : \E c \in TrumpsInHand :
          /\ pile[i][2].suit = trump
          /\ team[pile[i][1]] # team[awaiting]
          /\ TRUMP_ORDER[pile[i][2].rank] > TRUMP_ORDER[c.rank]
    /\ LegalSet = TrumpsInHand

(***************************************************************************)
(* Properties of the trick's winner, checked under SpecWin.                *)
(***************************************************************************)
\* the key (isTrump, isLedSuit, rank in context) of a card of the pile
ContextKey(c) ==
    <<IF c.suit = trump THEN 1 ELSE 0,
      IF c.suit = LedSuit THEN 1 ELSE 0,
      IF c.suit = trump THEN TRUMP_ORDER[c.rank] ELSE NORMAL_ORDER[c.rank]>>

KeyBelow(a, b) ==
    \/ a[1] < b[1]
    \/ a[1] = b[1] /\ a[2] < b[2]
    \/ a[1] = b[1] /\ a[2] = b[2] /\ a[3] < b[3]

WinnerIndexes == {i \in DOMAIN pile : pile[i][1] = winner}
PlayedCards == {pile[i][2] : i \in DOMAIN pile}

\* C5: the winner of a complete trick is unique and its card strictly
\* dominates the three others under (isTrump, isLedSuit, rank in context): the
\* highest trump if a trump was played, else the highest card of the led suit;
\* a card neither trump nor of the led suit never wins.
C5_WinnerDominates ==
    pc = "resolved" =>
        /\ Cardinality(WinnerIndexes) = 1
        /\ \A w \in WinnerIndexes :
            LET wc == pile[w][2]
            IN  /\ \A j \in DOMAIN pile \ {w} :
                      KeyBelow(ContextKey(pile[j][2]), ContextKey(wc))
                /\ wc.suit = trump \/ wc.suit = LedSuit
                /\ (\E c \in PlayedCards : c.suit = trump)
                      => /\ wc.suit = trump
                         /\ \A c \in PlayedCards :
                               c.suit = trump
                                   => TRUMP_ORDER[c.rank] <= TRUMP_ORDER[wc.rank]
                /\ (\A c \in PlayedCards : c.suit # trump)
                      => /\ wc.suit = LedSuit
                         /\ \A c \in PlayedCards :
                               c.suit = LedSuit
                                   => NORMAL_ORDER[c.rank] <= NORMAL_ORDER[wc.rank]

\* a plain suit is led, two players trump in and the higher trump wins
\* against a led-suit card of higher plain rank
C5_Witness ==
    /\ pc = "resolved"
    /\ LedSuit # trump
    /\ Cardinality({c \in PlayedCards : c.suit = trump}) = 2
    /\ \E w \in WinnerIndexes :
          /\ w > 1
          /\ pile[w][2].suit = trump
          /\ \E j \in DOMAIN pile :
                /\ pile[j][2].suit = LedSuit
                /\ NORMAL_ORDER[pile[j][2].rank] > NORMAL_ORDER[pile[w][2].rank]

(***************************************************************************)
(* Properties of a deal, checked under Spec.                               *)
(***************************************************************************)
\* the point value of a card given the deal's trump, from the tables
ContextValue(c) ==
    IF c.suit = trump THEN TRUMP_VALUE[c.rank] ELSE NORMAL_VALUE[c.rank]

RECURSIVE ValueOfSet(_)
ValueOfSet(S) ==
    IF S = {} THEN 0
    ELSE LET c == CHOOSE x \in S : TRUE
         IN  ContextValue(c) + ValueOfSet(S \ {c})

CardsInHands == UNION {Range(hand[p]) : p \in Players}
CardsInDeck == Range(deck)
\* the cards of the tricks that are complete
CardsOfTricksDone ==
    IF pc = "done" THEN Card \ (CardsInHands \cup CardsInDeck)
    ELSE Card \ (CardsInHands \cup CardsInDeck \cup PlayedCards)
ScoreSum == teams[1].score + teams[2].score
InTricks == pc \in {"play", "done", "ValueError", "AssertionError"}

C6_Inv ==
    /\ pc = "done" => ScoreSum = 162
    /\ InTricks => ScoreSum = ValueOfSet(CardsOfTricksDone)
                              + (IF pc = "done" THEN LastTrickBonus ELSE 0)
    /\ ~ InTricks => teams[1].score = 0 /\ teams[2].score = 0

\* a step that completes a trick gives its four cards' values, and 10 more
\* after the eighth trick, to the team of the trick's winner alone; no other
\* step changes a score
C6_Step ==
    IF tricks' # tricks
    THEN LET last == Range(hand[awaiting]) \ Range(hand'[awaiting])
             gain == ValueOfSet(PlayedCards \cup last)
                     + (IF tricks' = nb_tricks THEN 10 ELSE 0)
             w == team[winner']
         IN  /\ Cardinality(PlayedCards \cup last) = NbPlayers
             /\ teams'[w].score = teams[w].score + gain
             /\ \A i \in DOMAIN teams \ {w} : teams'[i].score = teams[i].score
    ELSE \A i \in DOMAIN teams : teams'[i].score = teams[i].score

\* C6: after a completed deal the two teams' scores sum to 162: each trick's
\* card values go to the team of its winner only, the winner of the eighth
\* trick gets 10 more, and before that the sum is the value of the cards of
\* the tricks completed so far.
C6_ScoresSumTo162 == [] C6_Inv /\ [][C6_Step]_vars

C6_Witness ==
    /\ pc = "done"
    /\ tricks = nb_tricks
    /\ teams[1].score > 0
    /\ teams[2].score > 0
    /\ ScoreSum = 162

\* C7: the deck holds 32 cards before dealing; after deal_5_cards every player
\* holds 5 cards and the deck 12; after deal_remaining every player holds 8,
\* the deck is empty and the bidder holds the offered card; no deal-out asks
\* for more cards than the deck holds.
C7_DealCounts ==
    /\ pc = "start" => Len(deck) = 32 /\ \A p \in Players : hand[p] = <<>>
    /\ pc \in {"take", "choose", "nobid"} =>
          /\ \A p \in Players : Len(hand[p]) = 5
          /\ Len(deck) = 12
          /\ card = deck[Len(deck)]
    /\ InTricks => deck = <<>>
    /\ (pc = "play" /\ tricks = 0 /\ pile = <<>>) =>
          /\ \A p \in Players : Len(hand[p]) = 8
          /\ card \in Range(hand[bidder])
    /\ pc # "IndexError"

C7_Witness ==
    /\ pc = "play"
    /\ tricks = 0
    /\ pile = <<>>
    /\ \A p \in Players : Len(hand[p]) = 8
    /\ deck = <<>>
    /\ bidder # dealer
    /\ card \in Range(hand[bidder])

\* the i-th player after player d in seating order (the fourth is d itself)
Seat(d, i) == ((d + i - 1) % NbPlayers) + 1

TakeAsked == SelectSeq(asked, LAMBDA a : a.kind = "take")
ChooseAsked == SelectSeq(asked, LAMBDA a : a.kind = "choose")

\* this step takes the awaited player's message from its queue
Consumes ==
    /\ awaiting \in Players
    /\ queue[awaiting] # <<>>
    /\ queue'[awaiting] = Tail(queue[awaiting])

C8_Inv ==
    /\ pc # "start" => TakeAsked # <<>>
    /\ Len(TakeAsked) <= NbPlayers
    /\ \A i \in DOMAIN TakeAsked : TakeAsked[i].to = Seat(dealer, i)
    /\ asked = TakeAsked \o ChooseAsked
    /\ ChooseAsked # <<>> => Len(TakeAsked) = NbPlayers
    /\ pc = "take" => /\ awaiting = TakeAsked[Len(TakeAsked)].to
                      /\ bidder = 0
                      /\ ChooseAsked = <<>>
    /\ (bidder # 0 /\ ChooseAsked = <<>>) =>
          /\ trump = card.suit
          /\ bidder = TakeAsked[Len(TakeAsked)].to

C8_Step ==
    (pc = "take" /\ Consumes) =>
        IF Head(queue[awaiting]) = <<"y", "e", "s">>
        THEN /\ bidder' = awaiting
             /\ trump' = card.suit
             /\ asked' = asked
             /\ pc' = "play"
        ELSE /\ bidder' = 0
             /\ trump' = NoSuit
             /\ Len(asked') = Len(asked) + 1
             /\ pc' = IF Len(TakeAsked) = NbPlayers THEN "choose" ELSE "take"

\* C8: in the first round the players are asked one at a time in ring order
\* from the player after the dealer to the dealer; the first to answer "yes"
\* becomes the bidder with the top card's suit as trump, any other answer
\* declines, nobody is asked after the bidder and the second round starts
\* only when all four declined.
C8_FirstRound == [] C8_Inv /\ [][C8_Step]_vars

\* the third player asked takes the card
C8_Witness ==
    /\ pc = "play"
    /\ Len(asked) = 3
    /\ bidder = Seat(dealer, 3)
    /\ trump = card.suit

OfferedSuits == Suit \ {card.suit}

C9_Inv ==
    /\ Len(ChooseAsked) <= NbPlayers
    /\ \A i \in DOMAIN ChooseAsked :
          /\ ChooseAsked[i].to = Seat(dealer, i)
          /\ Len(ChooseAsked[i].choices) = 3
          /\ Range(ChooseAsked[i].choices) = {<<SuitValue[s]>> : s \in OfferedSuits}
    /\ pc = "choose" => awaiting = ChooseAsked[Len(ChooseAsked)].to /\ bidder = 0
    /\ (bidder # 0 /\ ChooseAsked # <<>>) =>
          /\ trump \in OfferedSuits
          /\ bidder = ChooseAsked[Len(ChooseAsked)].to
    /\ pc = "nobid" => Len(ChooseAsked) = NbPlayers /\ trump = NoSuit /\ bidder = 0

C9_Step ==
    /\ trump # NoSuit => trump' = trump
    /\ (pc = "choose" /\ Consumes) =>
          IF \E s \in OfferedSuits : Head(queue[awaiting]) = <<SuitValue[s]>>
          THEN /\ bidder' = awaiting
               /\ trump' \in OfferedSuits
               /\ Head(queue[awaiting]) = <<SuitValue[trump']>>
               /\ asked' = asked
               /\ pc' = "play"
          ELSE /\ bidder' = 0
               /\ trump' = NoSuit
               /\ pc' = IF Len(ChooseAsked) = NbPlayers THEN "nobid" ELSE "choose"

\* C9: the second round asks the players in the same order and offers exactly
\* the three suits other than the declined card's; the first player naming
\* one of them becomes the bidder with that suit as trump, so that trump is
\* never the declined suit, and once set the trump does not change.
C9_SecondRound == [] C9_Inv /\ [][C9_Step]_vars

\* the second player asked in the second round names a suit
C9_Witness ==
    /\ pc = "play"
    /\ Len(ChooseAsked) = 2
    /\ bidder = Seat(dealer, 2)
    /\ trump \in OfferedSuits

Contracting == {i \in DOMAIN teams : teams[i].has_contract}

\* C10: at most one team is contracting; during the tricks exactly the
\* bidder's team is; before the bidding resolves and after a no-bid none is.
C10_ContractingTeam ==
    /\ Cardinality(Contracting) <= 1
    /\ InTricks => bidder \in Players /\ Contracting = {team[bidder]}
    /\ pc \in {"start", "take", "choose", "nobid"} => bidder = 0 /\ Contracting = {}

C10_Witness ==
    /\ pc = "play"
    /\ tricks > 0
    /\ bidder \in {2, 4}
    /\ teams[2].has_contract
    /\ ~ teams[1].has_contract

(***************************************************************************)
(* Input that is not accepted.                                             *)
(***************************************************************************)
\* the awaited player's message names none of the cards it was told it may play
RejectedCard ==
    /\ pc = "play"
    /\ Consumes
    /\ \A c \in LegalSet : Head(queue[awaiting]) # CardString(c)

\* C11: when the player whose turn it is sends a card input that is rejected
\* (no card at all, or a card outside the legal moves), the pile and every
\* hand are unchanged, the same player is prompted again with the same legal
\* moves, and the deal goes on: the turn does not pass and start does not end.
C11_RejectedCardReprompts ==
    [][RejectedCard =>
          /\ pile' = pile
          /\ hand' = hand
          /\ pc' = "play"
          /\ awaiting' = awaiting
          /\ prompt' = prompt]_vars

\* the awaited player's answer in the second round is none of the offered suits
NotOffered ==
    /\ pc = "choose"
    /\ Consumes
    /\ \A s \in OfferedSuits : Head(queue[awaiting]) # <<SuitValue[s]>>

\* the bidding state and the cards, which an answer that names no trump leaves
\* alone
DealState == <<deck, hand, card, dealer, bidder, trump, teams, pile, tricks>>

\* C12 as stated: in the second round a token that is not one of the three
\* offered suits is rejected, the deal state is unchanged and the same player
\* is prompted again with the same choices; the turn does not move on.
C12_NotOfferedReprompts ==
    [][NotOffered =>
          /\ DealState' = DealState
          /\ pc' = "choose"
          /\ awaiting' = awaiting
          /\ asked'[Len(asked')] = asked[Len(asked)]]_vars

\* C12 amended: in the second round a token that is not one of the three
\* offered suits is a decline: the deal state is unchanged, and the turn moves
\* on to the next player in ring order, who gets the same choices, or start
\* returns without a bid when the dealer, asked last, was the one to answer.
C12_NotOfferedDeclines ==
    [][NotOffered =>
          /\ DealState' = DealState
          /\ IF awaiting = dealer
             THEN /\ pc' = "nobid"
                  /\ awaiting' = 0
                  /\ asked' = asked
             ELSE /\ pc' = "choose"
                  /\ awaiting' = Seat(awaiting, 1)
                  /\ asked' = Append(asked, [asked[Len(asked)] EXCEPT
                                                !.to = Seat(awaiting, 1)])]_vars

\* two players in a row have answered the second round with no offered suit
C12_Witness ==
    /\ pc = "choose"
    /\ Len(ChooseAsked) = 3
    /\ awaiting = Seat(dealer, 3)
    /\ bidder = 0
    /\ trump = NoSuit

\* no trick has been played and no score has changed
NothingPlayed ==
    /\ pile = <<>>
    /\ tricks = 0
    /\ \A i \in DOMAIN teams : teams[i].score = 0

\* C13: when all four players decline in both rounds, no trick is played and
\* no score changes, and the deck is then cut and the deal restarted: from
\* every no-bid state a new deal, with a new first bidding round, eventually
\* begins.
C13_NoBidRedeals ==
    /\ [](pc = "nobid" => NothingPlayed)
    /\ (pc = "nobid") ~> (pc = "take")

(***************************************************************************)
(* The order of play.                                                      *)
(***************************************************************************)
\* the player who leads the current trick
Leader == IF tricks = 0 THEN Seat(dealer, 1) ELSE winner

\* the strength of card c in a trick whose first card has suit led
TrickKey(c, led) ==
    <<IF c.suit = trump THEN 1 ELSE 0,
      IF c.suit = led THEN 1 ELSE 0,
      IF c.suit = trump THEN TRUMP_ORDER[c.rank] ELSE NORMAL_ORDER[c.rank]>>

\* the card that leaves the awaited player's hand in this step
CardLeaving == Range(hand[awaiting]) \ Range(hand'[awaiting])

C14_Inv ==
    pc = "play" =>
        /\ Len(pile) < NbPlayers
        /\ \A i \in DOMAIN pile : pile[i][1] = Seat(Leader, i - 1)
        /\ awaiting = Seat(Leader, Len(pile))
        /\ prompt.to = awaiting
        /\ tricks = 0 => winner = Seat(dealer, 1)
        /\ (pile # <<>> /\ \E c \in HandSet : c.suit = pile[1][2].suit)
              => \A c \in LegalSet : c.suit = pile[1][2].suit

C14_Step ==
    /\ (pc = "play" /\ pile' # pile /\ tricks' = tricks) =>
          /\ Consumes
          /\ Cardinality(CardLeaving) = 1
          /\ \E c \in CardLeaving : pile' = Append(pile, <<awaiting, c>>)
    /\ tricks' # tricks =>
          /\ Consumes
          /\ tricks' = tricks + 1
          /\ Len(pile) = NbPlayers - 1
          /\ awaiting = Seat(Leader, NbPlayers - 1)
          /\ Cardinality(CardLeaving) = 1
          /\ \E c \in CardLeaving :
                LET full == Append(pile, <<awaiting, c>>)
                    led == full[1][2].suit
                IN  /\ {full[i][1] : i \in DOMAIN full} = Players
                    /\ \E w \in DOMAIN full :
                          /\ winner' = full[w][1]
                          /\ \A j \in DOMAIN full \ {w} :
                                KeyBelow(TrickKey(full[j][2], led),
                                         TrickKey(full[w][2], led))
          /\ pc' = "play" => awaiting' = winner' /\ pile' = <<>>

\* C14: every trick receives exactly one play from each of the four players,
\* in ring order from the trick's leader; the first trick is led by the player
\* after the dealer, every later trick by the winner of the previous one, and
\* the led suit of a trick is the suit of its leader's card.
C14_TrickOrder == [] C14_Inv /\ [][C14_Step]_vars

\* the third trick is under way, led by a player other than the leader of the
\* first trick, and two players have played
C14_Witness ==
    /\ pc = "play"
    /\ tricks = 2
    /\ winner # Seat(dealer, 1)
    /\ Len(pile) = 2
    /\ pile[1][1] = winner
    /\ pile[2][1] = Seat(winner, 1)

(***************************************************************************)
(* The turn ring.                                                          *)
(***************************************************************************)
\* the player n seats after player p, by the list order of Belote.players
After(p, n) == players[((p - 1 + n) % NbPlayers) + 1]

\* C15: once initialize_double_linked_list has linked the four players,
\* players[i].next is players[(i+1) mod 4] and players[i].previous is
\* players[(i-1) mod 4], p.next.previous is p and four nexts lead back to p;
\* dealing, bidding and play never change the ring.
C15_RingInListOrder ==
    /\ Len(players) = NbPlayers
    /\ \A i \in 1..NbPlayers : players[i] = i
    /\ \A p \in Players :
          /\ ring.next[p] = After(p, 1)
          /\ ring.previous[p] = After(p, NbPlayers - 1)
          /\ ring.previous[ring.next[p]] = p
          /\ ring.next[ring.previous[p]] = p
          /\ ring.next[ring.next[ring.next[ring.next[p]]]] = p
          /\ \A n \in 1..(NbPlayers - 1) : After(p, n) # p

\* the deal has been dealt, bid and played to its end on the ring
C15_Witness ==
    /\ pc = "done"
    /\ tricks = nb_tricks
    /\ ring.next = [p \in Players |-> (p % NbPlayers) + 1]
    /\ ring.previous[1] = NbPlayers

\* the players a traversal has yielded so far, the awaited one last
Yielded ==
    IF pc = "play" THEN [i \in DOMAIN pile |-> pile[i][1]] \o <<awaiting>>
    ELSE IF pc = "take" THEN [i \in DOMAIN TakeAsked |-> TakeAsked[i].to]
    ELSE IF pc = "choose" THEN [i \in DOMAIN ChooseAsked |-> ChooseAsked[i].to]
    ELSE <<>>

\* C16: iter_from_next of a seated player p yields exactly four players, the
\* three others in seating order from the one right after p and then p, each
\* once; iter_from_self yields the same ring order from p to the player
\* before p; a traversal under way has yielded a prefix of that order and
\* the rest is still to come; no traversal changes the ring.
C16_Inv ==
    /\ \A p \in Players :
          /\ iter_from_next(ring, p)
                = <<After(p, 1), After(p, 2), After(p, 3), p>>
          /\ iter_from_self(ring, p)
                = <<p, After(p, 1), After(p, 2), After(p, 3)>>
          /\ iter_from_self(ring, p)[NbPlayers] = ring.previous[p]
          /\ Cardinality(Range(iter_from_next(ring, p))) = NbPlayers
          /\ Cardinality(Range(iter_from_self(ring, p))) = NbPlayers
    /\ pc \in {"take", "choose"} =>
          Yielded \o todo = <<After(dealer, 1), After(dealer, 2),
                              After(dealer, 3), dealer>>
    /\ pc = "play" =>
          Yielded \o todo = <<Leader, After(Leader, 1),
                              After(Leader, 2), After(Leader, 3)>>

C16_Traversals == [] C16_Inv /\ [][ring' = ring]_vars

\* the traversal from the dealer's next player is half way in the second round
C16_Witness ==
    /\ pc = "choose"
    /\ dealer = 3
    /\ Yielded = <<4, 1>>
    /\ todo = <<2, 3>>

(***************************************************************************)
(* The seats, checked under SpecConn.                                      *)
(***************************************************************************)
\* C19: after any sequence of connections, every player known to the game has
\* a seat number in 1..4 and belongs to the ring and to a team: at most four
\* players are seated, the game is started exactly when the fourth is, and a
\* fifth or later connection is not among the players that receive the
\* broadcasts and the hands.
C19_AtMostFourSeated ==
    /\ Len(players) <= NbPlayers
    /\ \A i \in DOMAIN players : players[i] = i /\ players[i] \in 1..NbPlayers
    /\ pc = "idle" <=> Len(players) < NbPlayers
    /\ pc # "idle" =>
          \A p \in Range(players) :
              /\ p \in DOMAIN ring.next
              /\ ring.next[p] \in Range(players)
              /\ ring.previous[p] \in Range(players)
              /\ team[p] \in DOMAIN teams
    /\ pc # "AttributeError"

(***************************************************************************)
(* Deck.cut, checked under SpecCut.                                        *)
(***************************************************************************)
\* C17: Deck.cut(index) succeeds exactly when 3 <= index <= len(deck) - 3, and
\* the deck is then the old cards from index on followed by the old cards
\* before index: a rotation that loses and duplicates nothing; with any other
\* index the cut fails and the deck is unchanged.
C17_CutRotates ==
    [][pc = "cut" =>
          IF 3 <= index /\ index <= Len(deck) - 3
          THEN /\ pc' = "cut_done"
               /\ Len(deck') = Len(deck)
               /\ \A i \in 1..Len(deck) :
                     deck'[i] = deck[((i - 1 + index) % Len(deck)) + 1]
               /\ Range(deck') = Range(deck)
               /\ Cardinality(Range(deck')) = Len(deck')
          ELSE /\ pc' = "AssertionError"
               /\ deck' = deck]_vars

\* the twelve cards left after the first deal have been cut at index 5
C17_Witness ==
    /\ pc = "cut_done"
    /\ index = 5
    /\ Len(deck) = 12
    /\ \E k \in 1..NbShuffles :
          /\ deck[1] = Shuffled(k)[6]
          /\ deck[12] = Shuffled(k)[5]

(***************************************************************************)
(* The queues.                                                             *)
(***************************************************************************)
\* what only Belote.start may change: the game, and where start is suspended
GameState ==
    <<trump, bidder, pile, hand, teams, deck, card, dealer, winner, tricks,
      pc, awaiting, todo, asked, prompt>>

\* the player whose turn it is: the next to be asked in the round of bidding
\* under way, or the next to play to the trick (0 when it is nobody's turn)
Turn ==
    IF pc = "take" THEN After(dealer, Len(TakeAsked))
    ELSE IF pc = "choose" THEN After(dealer, Len(ChooseAsked))
    ELSE IF pc = "play" THEN Seat(Leader, Len(pile))
    ELSE 0

C18_Inv ==
    /\ awaiting \in Players \cup {0}
    /\ awaiting = Turn
    /\ pc \in {"take", "choose"} => asked[Len(asked)].to = awaiting
    /\ pc = "play" => prompt.to = awaiting

C18_Step ==
    /\ (\E p \in Players \ {awaiting} : queue'[p] # queue[p])
          => GameState' = GameState
    /\ GameState' # GameState => pc = "start" \/ Consumes

\* C18: in every reachable state start waits on at most one player's queue,
\* that of the player whose turn it is (the next to be asked in the bidding,
\* the next to play in the trick); input from any other player changes
\* neither trump, bidder, pile, hands nor scores while it is not its turn.
C18_OneAwaited == [] C18_Inv /\ [][C18_Step]_vars

\* a player that is not awaited has a message in its queue during a trick
C18_Witness ==
    /\ pc = "play"
    /\ Len(pile) = 2
    /\ queue[awaiting] = <<>>
    /\ \E p \in Players \ {awaiting} :
          /\ queue[p] # <<>>
          /\ \A i \in DOMAIN pile : pile[i][1] # p

\* the players whose queue this step changes
QueuesChanged == {p \in Players : queue'[p] # queue[p]}

C20_Inv ==
    /\ pc \in {"take", "choose"} => asked[Len(asked)].to = awaiting
    /\ \A p \in Players : \A i \in DOMAIN queue[p] :
          /\ queue[p][i] # <<>>
          /\ "\n" \notin Range(queue[p][i])

C20_Step ==
    /\ Cardinality(QueuesChanged) <= 1
    /\ \A p \in QueuesChanged :
          \/ /\ Len(queue'[p]) = Len(queue[p]) + 1
             /\ SubSeq(queue'[p], 1, Len(queue[p])) = queue[p]
             /\ GameState' = GameState
          \/ /\ p = awaiting
             /\ queue[p] # <<>>
             /\ queue'[p] = Tail(queue[p])
             /\ GameState' # GameState
    /\ (pc \in {"take", "choose"} /\ GameState' # GameState) =>
          /\ Consumes
          /\ pc = "take" =>
                (bidder' = awaiting <=> Head(queue[awaiting]) = <<"y", "e", "s">>)
          /\ pc = "choose" =>
                /\ bidder' = awaiting <=>
                      \E s \in OfferedSuits : Head(queue[awaiting]) = <<SuitValue[s]>>
                /\ bidder' = awaiting => Head(queue[awaiting]) = <<SuitValue[trump']>>
          /\ bidder' \in {0, awaiting}
          /\ pc' \in {"take", "choose"} =>
                /\ Len(asked') = Len(asked) + 1
                /\ asked'[Len(asked')].to = awaiting'

\* C20: each player's messages are consumed in arrival order, exactly one per
\* prompt issued to that player, and none is dropped: a message joins the
\* tail of its sender's queue, only the head of the awaited player's queue is
\* taken, one for each prompt, and it is that head which answers the prompt,
\* also when it arrived before the prompt was sent.
C20_QueueOrder == [] C20_Inv /\ [][C20_Step]_vars

\* a message was sent to a queue that already held one, and every message
\* sent has answered a prompt: the second round has reached its second player
C20_Witness ==
    /\ pc = "choose"
    /\ ahead = 0
    /\ Len(ChooseAsked) = 2
    /\ \A p \in Players : queue[p] = <<>>

(***************************************************************************)
(* The cards of a deal.                                                    *)
(***************************************************************************)
\* the tricks whose cards are held nowhere any more: start drops a trick when
\* the next one begins, and keeps the eighth
TricksAway == IF pc = "done" THEN tricks - 1 ELSE tricks

\* list s holds no card twice
NoRepeat(s) == Cardinality(Range(s)) = Len(s)

\* list s begins with list t
StartsWith(s, t) == Len(t) <= Len(s) /\ SubSeq(s, 1, Len(t)) = t

\* the cards player p holds after the step and did not hold before
Gained(p) == Range(hand'[p]) \ Range(hand[p])

C22_Inv ==
    /\ NoRepeat(deck)
    /\ NoRepeat([i \in DOMAIN pile |-> pile[i][2]])
    /\ \A p \in Players : NoRepeat(hand[p])
    /\ CardsInDeck \cap CardsInHands = {}
    /\ CardsInDeck \cap PlayedCards = {}
    /\ CardsInHands \cap PlayedCards = {}
    /\ \A p, q \in Players : p # q => Range(hand[p]) \cap Range(hand[q]) = {}
    /\ CardsInDeck \cup CardsInHands \cup PlayedCards \subseteq Card
    /\ Cardinality(Card) = 32
    /\ Cardinality(CardsInDeck) + Cardinality(CardsInHands)
          + Cardinality(PlayedCards) + NbPlayers * TricksAway = 32

C22_Step ==
    /\ deck' # deck =>
          /\ StartsWith(deck, deck')
          /\ \A p \in Players : StartsWith(hand'[p], hand[p])
          /\ UNION {Gained(p) : p \in Players} = Range(deck) \ Range(deck')
          /\ pile' = pile
    /\ (hand' # hand /\ deck' = deck) =>
          /\ pc = "play"
          /\ \A p \in Players \ {awaiting} : hand'[p] = hand[p]
          /\ \E c \in Range(hand[awaiting]) :
                /\ hand'[awaiting] = SelectSeq(hand[awaiting], LAMBDA x : x # c)
                /\ \/ pile' = Append(pile, <<awaiting, c>>)
                   \/ /\ Len(pile) = NbPlayers - 1
                      /\ pile' = <<>>
                      /\ tricks' = tricks + 1
    /\ pile' # pile => hand' # hand

\* C22: in every reachable state of a deal the cards of the deck, of the four
\* hands and of the tricks are pairwise disjoint and together the 32 distinct
\* cards; dealing only moves cards from the top of the deck to a hand, a play
\* moves one card from the playing player's own hand to the current trick and
\* changes no other hand.
C22_CardConservation == [] C22_Inv /\ [][C22_Step]_vars

\* the fourth trick is half played
C22_Witness ==
    /\ pc = "play"
    /\ tricks = 3
    /\ Len(pile) = 2
    /\ deck = <<>>
    /\ Cardinality(CardsInHands) = 18

(***************************************************************************)
(* The end of the deal, checked under FairDeal.                            *)
(***************************************************************************)
\* the players that have played to the current trick
InPile == {pile[i][1] : i \in DOMAIN pile}

\* the cards player p has played since the tricks began
PlaysOf(p) == 8 - Len(hand[p])

C21_Inv ==
    /\ pc \in {"start", "take", "choose", "nobid", "play", "done"}
    /\ pc = "play" =>
          /\ tricks < 8
          /\ \A p \in Players :
                PlaysOf(p) = tricks + (IF p \in InPile THEN 1 ELSE 0)
          /\ prompt.to = awaiting
          /\ prompt.legal # <<>>
          /\ Range(prompt.legal) \subseteq Range(hand[awaiting])
    /\ pc = "done" =>
          /\ tricks = 8
          /\ Len(pile) = NbPlayers
          /\ \A p \in Players : hand[p] = <<>> /\ PlaysOf(p) = 8
          /\ awaiting = 0
          /\ ValueOfSet(Card) = 152
          /\ ScoreSum = ValueOfSet(Card) + 10

C21_Step ==
    /\ tricks' \in {tricks, tricks + 1}
    /\ tricks' # tricks =>
          ScoreSum' = ScoreSum + ValueOfSet(PlayedCards \cup CardLeaving)
                      + (IF tricks' = 8 THEN 10 ELSE 0)
    /\ tricks' = tricks => ScoreSum' = ScoreSum
    /\ pc = "done" => prompt' = prompt /\ asked' = asked /\ awaiting' = 0

\* C21: if the bidding resolves and every prompted player eventually sends a
\* legal card, the deal completes: 8 tricks of 4 plays are played, 8 by each
\* player, every hand is empty at the end, the last-trick bonus is added
\* exactly once, and no player is prompted after the eighth trick.
C21_DealCompletes ==
    /\ [] C21_Inv
    /\ [][C21_Step]_vars
    /\ (pc = "play") ~> (pc = "done")

\* the deal is over: the eighth trick lies in the pile and the team of its
\* winner has the bonus
C21_Witness ==
    /\ pc = "done"
    /\ tricks = 8
    /\ Len(pile) = NbPlayers
    /\ \A p \in Players : hand[p] = <<>>
    /\ teams[team[winner]].score >= 10
    /\ awaiting = 0

====
